---- MODULE Spec2Model ----
(***************************************************************************)
(* Model of class MaximoFLujo (src/Proyecto6.py): a directed flow network  *)
(* kept in four fields (node set, capacity table, flow table, adjacency    *)
(* index) and its two augmenting-path maximum-flow solvers.                *)
(*                                                                         *)
(* The dict-of-dict tables capacidad[u][v] and flujo[u][v] are functions   *)
(* over the stored pairs <<u, v>>; rows that defaultdict creates on a read *)
(* are empty and are not represented.  ady is a function over the keys     *)
(* present in the defaultdict, empty sets included.  The assert statements *)
(* are taken as enabled (the program is started as a plain script).        *)
(***************************************************************************)
EXTENDS Integers, Sequences, FiniteSets, TLC

\* ---- bounds of the model ------------------------------------------------
NumNodos == 3
MaxCap == 1
MaxLlamadas == 4
\* largest capacity of the networks that RedesIniciales draws
MaxCapRed == 2

\* float("inf"): larger than every integer the model can produce, absorbing
\* under addition (see Suma).
Inf == 1000000

Nodos == 0 .. (NumNodos - 1)
Caps == (0 - 1) .. MaxCap

VARIABLES nodos, capacidad, flujo, ady,
          pc, alg, fuente, sumidero, flujo_maximo, padre,
          ultima, llamadas

red == <<nodos, capacidad, flujo, ady>>
vars == <<nodos, capacidad, flujo, ady, pc, alg, fuente, sumidero,
          flujo_maximo, padre, ultima, llamadas>>

\* ---- helpers -------------------------------------------------------------
Vacio == [p \in {} |-> 0]

\* dict.get(k, d)
Get(f, k, d) == IF k \in DOMAIN f THEN f[k] ELSE d

\* f[k] = x on a dict
Poner(f, k, x) == [q \in (DOMAIN f) \cup {k} |-> IF q = k THEN x ELSE f[q]]

\* the dict without the keys of K
Quitar(f, K) == [q \in (DOMAIN f) \ K |-> f[q]]

Min(a, b) == IF a <= b THEN a ELSE b
Max(a, b) == IF a >= b THEN a ELSE b

\* x + y when either may be float("inf")
Suma(a, b) == IF a = Inf \/ b = Inf THEN Inf ELSE a + b

\* the four fields as one record
G == [nodos |-> nodos, capacidad |-> capacidad, flujo |-> flujo, ady |-> ady]

\* ---- graph mutation (pure, on the record of fields) ----------------------
agregar_nodo(g, u) == [g EXCEPT !.nodos = @ \cup {u}]

Incide(p, u) == p[1] = u \/ p[2] = u

\* eliminar_nodo without the loop of lines 70-71 (u stays as a target)
eliminar_nodo_solo_fila(g, u) ==
  [nodos     |-> g.nodos \ {u},
   capacidad |-> Quitar(g.capacidad, {p \in DOMAIN g.capacidad : p[1] = u}),
   flujo     |-> Quitar(g.flujo, {p \in DOMAIN g.flujo : Incide(p, u)}),
   ady       |-> [w \in {x \in (DOMAIN g.ady) \ {u} : g.ady[x] \ {u} # {}}
                    |-> g.ady[w] \ {u}]]

eliminar_nodo(g, u) ==
  [nodos     |-> g.nodos \ {u},
   capacidad |-> Quitar(g.capacidad, {p \in DOMAIN g.capacidad : Incide(p, u)}),
   flujo     |-> Quitar(g.flujo, {p \in DOMAIN g.flujo : Incide(p, u)}),
   ady       |-> [w \in {x \in (DOMAIN g.ady) \ {u} : g.ady[x] \ {u} # {}}
                    |-> g.ady[w] \ {u}]]

\* eliminar_arista that also drops the flow entry of the edge
eliminar_arista_y_flujo(g, u, v) ==
  [g EXCEPT !.capacidad = Quitar(@, {<<u, v>>}),
            !.flujo = Quitar(@, {<<u, v>>})]

eliminar_arista(g, u, v) ==
  [g EXCEPT !.capacidad = Quitar(@, {<<u, v>>})]

\* establecer_capacidad without the cap == 0 branch (lines 101-103)
establecer_capacidad_sin_cero(g, u, v, cap) ==
  LET f1 == IF <<u, v>> \in DOMAIN g.flujo THEN g.flujo
            ELSE Poner(g.flujo, <<u, v>>, 0)
      f2 == IF <<v, u>> \in DOMAIN f1 THEN f1 ELSE Poner(f1, <<v, u>>, 0)
      a1 == Poner(g.ady, u, Get(g.ady, u, {}) \cup {v})
      a2 == Poner(a1, v, Get(a1, v, {}) \cup {u})
  IN [nodos     |-> g.nodos \cup {u, v},
      capacidad |-> Poner(g.capacidad, <<u, v>>, cap),
      flujo     |-> f2,
      ady       |-> a2]

\* establecer_capacidad for cap >= 0 (the assert is in the action)
establecer_capacidad(g, u, v, cap) ==
  IF cap = 0 THEN eliminar_arista(g, u, v)
  ELSE LET f1 == IF <<u, v>> \in DOMAIN g.flujo THEN g.flujo
                 ELSE Poner(g.flujo, <<u, v>>, 0)
           f2 == IF <<v, u>> \in DOMAIN f1 THEN f1 ELSE Poner(f1, <<v, u>>, 0)
           a1 == Poner(g.ady, u, Get(g.ady, u, {}) \cup {v})
           a2 == Poner(a1, v, Get(a1, v, {}) \cup {u})
       IN [nodos     |-> g.nodos \cup {u, v},
           capacidad |-> Poner(g.capacidad, <<u, v>>, cap),
           flujo     |-> f2,
           ady       |-> a2]

\* agregar_arista that passes cap on as it is (no sum on line 96)
agregar_arista_sobrescribe(g, u, v, cap) ==
  establecer_capacidad(g, u, v, cap)

agregar_arista(g, u, v, cap) ==
  establecer_capacidad(g, u, v, Get(g.capacidad, <<u, v>>, 0) + cap)

\* aristas(): the triples with cap > 0 (as a set; the list is sorted)
aristas == {<<p[1], p[2], capacidad[p]>> : p \in {q \in DOMAIN capacidad : capacidad[q] > 0}}

\* reiniciar_flujos that writes the zeros into a copy of the table
reiniciar_flujos_en_copia(f) == f

\* lines 142-145
reiniciar_flujos(f) == [p \in DOMAIN f |-> 0]

\* ---- residual capacities -------------------------------------------------
\* residual_adelante that forgets the flow already on the edge
residual_adelante_sin_flujo(g, u, v) ==
  Get(g.capacidad, <<u, v>>, 0)

\* line 159
residual_adelante(g, u, v) ==
  Get(g.capacidad, <<u, v>>, 0) - Get(g.flujo, <<u, v>>, 0)

\* residual_atras that never offers flow to cancel
residual_atras_cero(g, u, v) == 0

residual_atras(g, u, v) == Get(g.flujo, <<v, u>>, 0)

\* ---- depth-first augmenting search ---------------------------------------
\* One search is the set of its possible outcomes, one per iteration order of
\* the adjacency sets (a Python set has no specified order).  An outcome is
\* [found, visitado, padre, entradas, prof, hondo]; padre[v] = <<u, dir>>.
\* entradas[n] counts the calls of _dfs_aumento with actual = n, prof is the
\* number of its frames on the call stack and hondo the largest prof so far.
RECURSIVE dfs_aumento(_, _, _, _), DfsVecinos(_, _, _, _, _)

\* DfsVecino without the second test (lines 187-190)
DfsVecinoSinAtras(g, actual, t, vecino, resto, st) ==
  LET r1 == IF vecino \notin st.visitado /\ residual_adelante(g, actual, vecino) > 0
            THEN dfs_aumento(g, vecino, t,
                             [st EXCEPT !.padre = Poner(@, vecino, <<actual, 1>>)])
            ELSE {st}
      Tras(s1) == IF s1.found THEN {s1} ELSE DfsVecinos(g, actual, t, resto, s1)
  IN UNION {Tras(s1) : s1 \in r1}

\* the body of the for loop for one vecino, then the rest of the loop
DfsVecino(g, actual, t, vecino, resto, st) ==
  LET r1 == IF vecino \notin st.visitado /\ residual_adelante(g, actual, vecino) > 0
            THEN dfs_aumento(g, vecino, t,
                             [st EXCEPT !.padre = Poner(@, vecino, <<actual, 1>>)])
            ELSE {st}
      Segundo(s1) ==
            IF vecino \notin s1.visitado /\ residual_atras(g, actual, vecino) > 0
            THEN dfs_aumento(g, vecino, t,
                             [s1 EXCEPT !.padre = Poner(@, vecino, <<actual, 0 - 1>>)])
            ELSE {s1}
      Sigue(s2) == IF s2.found THEN {s2} ELSE DfsVecinos(g, actual, t, resto, s2)
      Tras(s1) == IF s1.found THEN {s1} ELSE UNION {Sigue(s2) : s2 \in Segundo(s1)}
  IN UNION {Tras(s1) : s1 \in r1}

\* The for loop of lines 182-190 over the vecinos still to come, in every
\* order.  A vecino that is visited, or has no residual in either direction,
\* fails both tests now and for the rest of the loop (visitado only grows and
\* the tables do not change during a search), so the body does nothing for it
\* wherever it comes in the order: it is dropped before the orders are taken.
DfsVecinos(g, actual, t, pend, st) ==
  LET vivos == {w \in pend : /\ w \notin st.visitado
                             /\ \/ residual_adelante(g, actual, w) > 0
                                \/ residual_atras(g, actual, w) > 0}
  IN IF vivos = {} THEN {st}
     ELSE UNION {DfsVecino(g, actual, t, vecino, vivos \ {vecino}, st) : vecino \in vivos}

\* dfs_aumento with visitado passed by value: what a failed call marked is
\* lost when it returns
dfs_aumento_por_valor(g, actual, t, st) ==
  LET e == [st EXCEPT !.entradas = Poner(@, actual, Get(@, actual, 0) + 1),
                      !.prof = @ + 1,
                      !.hondo = Max(@, st.prof + 1)]
      R == IF actual = t THEN {[e EXCEPT !.found = TRUE]}
           ELSE DfsVecinos(g, actual, t, Get(g.ady, actual, {}),
                           [e EXCEPT !.visitado = @ \cup {actual}])
  IN {[r EXCEPT !.prof = st.prof,
                !.visitado = IF r.found THEN @ ELSE st.visitado] : r \in R}

\* lines 178-191.  entradas counts the entries of the function per node, prof
\* is the number of calls on the stack and hondo the largest prof so far.
dfs_aumento(g, actual, t, st) ==
  LET e == [st EXCEPT !.entradas = Poner(@, actual, Get(@, actual, 0) + 1),
                      !.prof = @ + 1,
                      !.hondo = Max(@, st.prof + 1)]
      R == IF actual = t THEN {[e EXCEPT !.found = TRUE]}
           ELSE DfsVecinos(g, actual, t, Get(g.ady, actual, {}),
                           [e EXCEPT !.visitado = @ \cup {actual}])
  IN {[r EXCEPT !.prof = st.prof] : r \in R}

\* the call of line 201: fresh visitado and padre
BuscarDFS(g, s, t) ==
  dfs_aumento(g, s, t, [found |-> FALSE, visitado |-> {}, padre |-> Vacio,
                        entradas |-> Vacio, prof |-> 0, hondo |-> 0])

\* ---- breadth-first augmenting search -------------------------------------
\* padre holds the discovered nodes only (None is absence); visitado is the
\* set of nodes whose adjacency set was read.
RECURSIVE BfsCola(_, _, _, _), BfsVecinos(_, _, _, _, _, _)

BfsVecino(g, t, u, v, resto, q, st) ==
  LET ad == v \notin DOMAIN st.padre /\ residual_adelante(g, u, v) > 0
      p1 == IF ad THEN Poner(st.padre, v, <<u, 1>>) ELSE st.padre
      q1 == IF ad THEN Append(q, v) ELSE q
      at == v \notin DOMAIN p1 /\ residual_atras(g, u, v) > 0
      p2 == IF at THEN Poner(p1, v, <<u, 0 - 1>>) ELSE p1
      q2 == IF at THEN Append(q1, v) ELSE q1
  IN IF ad /\ v = t THEN {[st EXCEPT !.found = TRUE, !.padre = p1]}
     ELSE IF at /\ v = t THEN {[st EXCEPT !.found = TRUE, !.padre = p2]}
     ELSE BfsVecinos(g, t, u, resto, q2, [st EXCEPT !.padre = p2])

\* The for loop of lines 249-259, in every order; as in DfsVecinos, a vecino
\* that already has a padre or has no residual is dropped first.
BfsVecinos(g, t, u, pend, q, st) ==
  LET vivos == {w \in pend : /\ w \notin DOMAIN st.padre
                             /\ \/ residual_adelante(g, u, w) > 0
                                \/ residual_atras(g, u, w) > 0}
  IN IF vivos = {} THEN BfsCola(g, t, q, st)
     ELSE UNION {BfsVecino(g, t, u, v, vivos \ {v}, q, st) : v \in vivos}

BfsCola(g, t, q, st) ==
  IF q = <<>> THEN {st}
  ELSE LET u == Head(q)
       IN IF u = t THEN {[st EXCEPT !.found = TRUE]}
          ELSE BfsVecinos(g, t, u, Get(g.ady, u, {}), Tail(q),
                          [st EXCEPT !.visitado = @ \cup {u}])

\* bfs_aumento that runs the depth-first search of the other solver
bfs_aumento_en_profundidad(g, s, t) ==
  BuscarDFS(g, s, t)

\* lines 241-260
bfs_aumento(g, s, t) ==
  BfsCola(g, t, <<s>>, [found |-> FALSE, visitado |-> {},
                        padre |-> Poner(Vacio, s, <<s, 0>>)])

\* ---- one augmentation ----------------------------------------------------
RECURSIVE Botella(_, _, _, _, _), Aplicar(_, _, _, _, _)

\* Botella taking the capacity of a forward step instead of its residual
BotellaCapacidad(g, pa, s, v, b) ==
  IF v = s THEN b
  ELSE LET u == pa[v][1]
           r == IF pa[v][2] = 1 THEN Get(g.capacidad, <<u, v>>, 0)
                ELSE residual_atras(g, u, v)
       IN Botella(g, pa, s, u, Min(b, r))

\* lines 203-211 / 271-279: the minimum residual on the walk from v back to s
Botella(g, pa, s, v, b) ==
  IF v = s THEN b
  ELSE LET u == pa[v][1]
           r == IF pa[v][2] = 1 THEN residual_adelante(g, u, v)
                ELSE residual_atras(g, u, v)
       IN Botella(g, pa, s, u, Min(b, r))

\* Aplicar with the sign of the backward step wrong (line 218 with +)
AplicarSigno(f, pa, s, v, botella) ==
  IF v = s THEN f
  ELSE LET u == pa[v][1]
           f1 == IF pa[v][2] = 1
                 THEN Poner(f, <<u, v>>, Suma(Get(f, <<u, v>>, 0), botella))
                 ELSE Poner(f, <<v, u>>, Get(f, <<v, u>>, 0) + botella)
       IN Aplicar(f1, pa, s, u, botella)

\* lines 212-219 / 280-287: the flow table after pushing botella on the walk
Aplicar(f, pa, s, v, botella) ==
  IF v = s THEN f
  ELSE LET u == pa[v][1]
           f1 == IF pa[v][2] = 1
                 THEN Poner(f, <<u, v>>, Suma(Get(f, <<u, v>>, 0), botella))
                 ELSE Poner(f, <<v, u>>, Get(f, <<v, u>>, 0) - botella)
       IN Aplicar(f1, pa, s, u, botella)

\* FlujoAristas walking the flow table instead of the capacity table
FlujoAristasDeFlujo(g) ==
  [p \in DOMAIN g.flujo |->
     Max(0, Min(Get(g.capacidad, p, 0), g.flujo[p]))]

\* lines 221-225 / 289-293
FlujoAristas(g) ==
  [p \in DOMAIN g.capacidad |->
     Max(0, Min(g.capacidad[p], Get(g.flujo, p, 0)))]

\* self.ady[n] on a defaultdict creates the key n
Tocar(a, S) == [n \in (DOMAIN a) \cup S |-> Get(a, n, {})]

\* ---- the object after construction ---------------------------------------
Ninguna == [op |-> "init", u |-> 0, v |-> 0, err |-> "none",
            total |-> 0, flujo_aristas |-> Vacio]

Ret(op, u, v, err) == [op |-> op, u |-> u, v |-> v, err |-> err,
                       total |-> 0, flujo_aristas |-> Vacio]

Init ==
  /\ nodos = {}
  /\ capacidad = Vacio
  /\ flujo = Vacio
  /\ ady = Vacio
  /\ pc = "idle"
  /\ alg = "none"
  /\ fuente = 0
  /\ sumidero = 0
  /\ flujo_maximo = 0
  /\ padre = Vacio
  /\ ultima = Ninguna
  /\ llamadas = 0

Locales == <<pc, alg, fuente, sumidero, flujo_maximo, padre>>

Campos(g) ==
  /\ nodos' = g.nodos
  /\ capacidad' = g.capacidad
  /\ flujo' = g.flujo
  /\ ady' = g.ady

Puede == pc = "idle" /\ llamadas < MaxLlamadas

\* ---- calls of the mutation methods ---------------------------------------
LlamarAgregarNodo(u) ==
  /\ Puede
  /\ Campos(agregar_nodo(G, u))
  /\ ultima' = Ret("agregar_nodo", u, u, "none")
  /\ llamadas' = llamadas + 1
  /\ UNCHANGED Locales

\* eliminar_nodo without the loop of lines 78-81: the adjacency sets of the
\* other nodes keep u
LlamarEliminarNodoSinPoda(u) ==
  /\ Puede
  /\ Campos([eliminar_nodo(G, u) EXCEPT
               !.ady = [w \in (DOMAIN ady) \ {u} |-> ady[w]]])
  /\ ultima' = Ret("eliminar_nodo", u, u, "none")
  /\ llamadas' = llamadas + 1
  /\ UNCHANGED Locales

LlamarEliminarNodo(u) ==
  /\ Puede
  /\ Campos(eliminar_nodo(G, u))
  /\ ultima' = Ret("eliminar_nodo", u, u, "none")
  /\ llamadas' = llamadas + 1
  /\ UNCHANGED Locales

\* establecer_capacidad with the assert after the store
LlamarEstablecerCapacidadTardio(u, v, cap) ==
  /\ Puede
  /\ Campos(establecer_capacidad(G, u, v, cap))
  /\ ultima' = Ret("establecer_capacidad", u, v,
                   IF cap >= 0 THEN "none" ELSE "AssertionError")
  /\ llamadas' = llamadas + 1
  /\ UNCHANGED Locales

LlamarEstablecerCapacidad(u, v, cap) ==
  /\ Puede
  /\ IF cap >= 0
     THEN /\ Campos(establecer_capacidad(G, u, v, cap))
          /\ ultima' = Ret("establecer_capacidad", u, v, "none")
     ELSE /\ UNCHANGED red
          /\ ultima' = Ret("establecer_capacidad", u, v, "AssertionError")
  /\ llamadas' = llamadas + 1
  /\ UNCHANGED Locales

\* agregar_arista that adds to the capacity table itself instead of going
\* through establecer_capacidad (line 96)
LlamarAgregarAristaDirecta(u, v, cap) ==
  /\ Puede
  /\ IF cap >= 0
     THEN /\ Campos(IF cap = 0 THEN G
                    ELSE [G EXCEPT !.capacidad =
                            Poner(@, <<u, v>>, Get(@, <<u, v>>, 0) + cap)])
          /\ ultima' = Ret("agregar_arista", u, v, "none")
     ELSE /\ UNCHANGED red
          /\ ultima' = Ret("agregar_arista", u, v, "AssertionError")
  /\ llamadas' = llamadas + 1
  /\ UNCHANGED Locales

LlamarAgregarArista(u, v, cap) ==
  /\ Puede
  /\ IF cap >= 0
     THEN /\ Campos(agregar_arista(G, u, v, cap))
          /\ ultima' = Ret("agregar_arista", u, v, "none")
     ELSE /\ UNCHANGED red
          /\ ultima' = Ret("agregar_arista", u, v, "AssertionError")
  /\ llamadas' = llamadas + 1
  /\ UNCHANGED Locales

LlamarEliminarArista(u, v) ==
  /\ Puede
  /\ Campos(eliminar_arista(G, u, v))
  /\ ultima' = Ret("eliminar_arista", u, v, "none")
  /\ llamadas' = llamadas + 1
  /\ UNCHANGED Locales

\* ---- the solvers ---------------------------------------------------------
\* Entrar with the reset before the membership check
EntrarReinicia(a, op, s, t) ==
  /\ Puede
  /\ llamadas' = llamadas + 1
  /\ flujo' = reiniciar_flujos(flujo)
  /\ IF s \in nodos /\ t \in nodos
     THEN /\ pc' = "bucle"
          /\ alg' = a
          /\ fuente' = s
          /\ sumidero' = t
          /\ flujo_maximo' = 0
          /\ UNCHANGED <<nodos, capacidad, ady, padre, ultima>>
     ELSE /\ ultima' = Ret(op, s, t, "ValueError")
          /\ UNCHANGED <<nodos, capacidad, ady, Locales>>

\* Entrar without the call of reiniciar_flujos (line 196 / 265)
EntrarSinReinicio(a, op, s, t) ==
  /\ Puede
  /\ llamadas' = llamadas + 1
  /\ IF s \in nodos /\ t \in nodos
     THEN /\ pc' = "bucle"
          /\ alg' = a
          /\ fuente' = s
          /\ sumidero' = t
          /\ flujo_maximo' = 0
          /\ UNCHANGED <<red, padre, ultima>>
     ELSE /\ ultima' = Ret(op, s, t, "ValueError")
          /\ UNCHANGED <<red, Locales>>

\* lines 194-197 / 263-266: the membership check, then the reset
Entrar(a, op, s, t) ==
  /\ Puede
  /\ llamadas' = llamadas + 1
  /\ IF s \in nodos /\ t \in nodos
     THEN /\ flujo' = reiniciar_flujos(flujo)
          /\ pc' = "bucle"
          /\ alg' = a
          /\ fuente' = s
          /\ sumidero' = t
          /\ flujo_maximo' = 0
          /\ UNCHANGED <<nodos, capacidad, ady, padre, ultima>>
     ELSE /\ ultima' = Ret(op, s, t, "ValueError")
          /\ UNCHANGED <<red, Locales>>

\* lines 199-202 / 268-270: the search of one pass of the while loop finds a
\* path; padre is the predecessor map it leaves
Hallar(a, R) ==
  /\ pc = "bucle"
  /\ alg = a
  /\ \E r \in R :
       /\ r.found
       /\ padre' = r.padre
       /\ ady' = Tocar(ady, r.visitado)
  /\ pc' = "aumento"
  /\ UNCHANGED <<nodos, capacidad, flujo, alg, fuente, sumidero, flujo_maximo,
                 ultima, llamadas>>

\* Aumentar that counts one unit per augmentation instead of botella
AumentarDeUno(a) ==
  /\ pc = "aumento"
  /\ alg = a
  /\ LET botella == Botella(G, padre, fuente, sumidero, Inf)
     IN /\ flujo' = Aplicar(flujo, padre, fuente, sumidero, botella)
        /\ flujo_maximo' = Suma(flujo_maximo, 1)
  /\ padre' = Vacio
  /\ pc' = "bucle"
  /\ UNCHANGED <<nodos, capacidad, ady, alg, fuente, sumidero, ultima, llamadas>>

\* lines 203-220 / 271-288: the bottleneck of the path, the flow update, the
\* total, and back to the top of the loop
Aumentar(a) ==
  /\ pc = "aumento"
  /\ alg = a
  /\ LET botella == Botella(G, padre, fuente, sumidero, Inf)
     IN /\ flujo' = Aplicar(flujo, padre, fuente, sumidero, botella)
        /\ flujo_maximo' = Suma(flujo_maximo, botella)
  /\ padre' = Vacio
  /\ pc' = "bucle"
  /\ UNCHANGED <<nodos, capacidad, ady, alg, fuente, sumidero, ultima, llamadas>>

\* the pass in which the search fails: break, shape the result, return
Salir(a, op, R) ==
  /\ pc = "bucle"
  /\ alg = a
  /\ \E r \in R :
       /\ ~r.found
       /\ ady' = Tocar(ady, r.visitado)
  /\ ultima' = [op |-> op, u |-> fuente, v |-> sumidero, err |-> "none",
                total |-> flujo_maximo, flujo_aristas |-> FlujoAristas(G)]
  /\ pc' = "idle"
  /\ alg' = "none"
  /\ fuente' = 0
  /\ sumidero' = 0
  /\ flujo_maximo' = 0
  /\ UNCHANGED <<nodos, capacidad, flujo, padre, llamadas>>

EntrarDFS(s, t) == Entrar("dfs", "ford_fulkerson_dfs", s, t)
HallarDFS == Hallar("dfs", BuscarDFS(G, fuente, sumidero))
AumentarDFS == Aumentar("dfs")
SalirDFS == Salir("dfs", "ford_fulkerson_dfs", BuscarDFS(G, fuente, sumidero))

EntrarBFS(s, t) == Entrar("bfs", "edmonds_karp_bfs", s, t)
HallarBFS == Hallar("bfs", bfs_aumento(G, fuente, sumidero))
AumentarBFS == Aumentar("bfs")
SalirBFS == Salir("bfs", "edmonds_karp_bfs", bfs_aumento(G, fuente, sumidero))

Next ==
  \/ \E u \in Nodos : LlamarAgregarNodo(u)
  \/ \E u \in Nodos : LlamarEliminarNodo(u)
  \/ \E u, v \in Nodos, cap \in Caps : LlamarEstablecerCapacidad(u, v, cap)
  \/ \E u, v \in Nodos, cap \in Caps : LlamarAgregarArista(u, v, cap)
  \/ \E u, v \in Nodos : LlamarEliminarArista(u, v)
  \/ \E s, t \in Nodos : EntrarDFS(s, t)
  \/ HallarDFS
  \/ AumentarDFS
  \/ SalirDFS
  \/ \E s, t \in Nodos : EntrarBFS(s, t)
  \/ HallarBFS
  \/ AumentarBFS
  \/ SalirBFS

Spec == Init /\ [][Next]_vars

\* the scheduling of a synchronous call: a solver that was entered keeps
\* running its loop
FairSpec ==
  /\ Spec
  /\ WF_vars(HallarDFS) /\ WF_vars(AumentarDFS) /\ WF_vars(SalirDFS)
  /\ WF_vars(HallarBFS) /\ WF_vars(AumentarBFS) /\ WF_vars(SalirBFS)

\* ---- solver runs on a family of four-node networks -----------------------
\* The networks are built by the mutation methods themselves: the four nodes
\* are added, then establecer_capacidad is called once per candidate edge:
\* the diamond 0 -> {1, 2} -> 3 with the cross edge 1 -> 2, its antiparallel
\* edge 2 -> 1, each with a capacity of 0 .. MaxCapRed (0: the call removes
\* nothing and the edge is absent), and a self-loop on 1.
NodosRed == {0, 1, 2, 3}
ExtremosRed == {0, 3}
AristasRed == << <<0, 1>>, <<0, 2>>, <<1, 2>>, <<1, 3>>, <<2, 3>>, <<2, 1>> >>
BucleRed == <<1, 1>>

RECURSIVE ConNodos(_, _), ConAristas(_, _, _)

ConNodos(g, N) ==
  IF N = {} THEN g
  ELSE LET n == CHOOSE x \in N : TRUE
       IN ConNodos(agregar_nodo(g, n), N \ {n})

ConAristas(g, c, i) ==
  IF i > Len(AristasRed) THEN g
  ELSE ConAristas(establecer_capacidad(g, AristasRed[i][1], AristasRed[i][2], c[i]),
                  c, i + 1)

GVacio == [nodos |-> {}, capacidad |-> Vacio, flujo |-> Vacio, ady |-> Vacio]

RedesIniciales ==
  {establecer_capacidad(ConAristas(ConNodos(GVacio, NodosRed), c, 1),
                        BucleRed[1], BucleRed[2], 1) :
     c \in [1 .. Len(AristasRed) -> 0 .. MaxCapRed]}

InitRed ==
  /\ \E g \in RedesIniciales :
       /\ nodos = g.nodos
       /\ capacidad = g.capacidad
       /\ flujo = g.flujo
       /\ ady = g.ady
  /\ pc = "idle"
  /\ alg = "none"
  /\ fuente = 0
  /\ sumidero = 0
  /\ flujo_maximo = 0
  /\ padre = Vacio
  /\ ultima = Ninguna
  /\ llamadas = MaxLlamadas - 2

NextRed ==
  \/ \E s, t \in ExtremosRed : EntrarDFS(s, t)
  \/ HallarDFS
  \/ AumentarDFS
  \/ SalirDFS
  \/ \E s, t \in ExtremosRed : EntrarBFS(s, t)
  \/ HallarBFS
  \/ AumentarBFS
  \/ SalirBFS

SpecRed == InitRed /\ [][NextRed]_vars

\* ==== properties ==========================================================
Solvers == {"ford_fulkerson_dfs", "edmonds_karp_bfs"}

\* r is the record of a solver call that returned a result
EsRetorno(r) == r.op \in Solvers /\ r.err = "none"

\* the step is the return of a solver call
Retorna == pc = "bucle" /\ pc' = "idle"

RECURSIVE SumaDe(_, _)
\* the sum of f over the keys of P
SumaDe(f, P) ==
  IF P = {} THEN 0
  ELSE LET p == CHOOSE x \in P : TRUE IN f[p] + SumaDe(f, P \ {p})

\* capacity of the cut (S, rest)
Corte(cap, S) == SumaDe(cap, {p \in DOMAIN cap : p[1] \in S /\ p[2] \notin S})

\* the maximum flow value from s to t by the max-flow/min-cut theorem,
\* computed over all cuts; 0 when s = t
CorteMinimo(cap, N, s, t) ==
  IF s = t THEN 0
  ELSE LET cortes == {Corte(cap, S \cup {s}) : S \in SUBSET (N \ {s, t})}
       IN CHOOSE m \in cortes : \A x \in cortes : m <= x

Sale(f, n) == SumaDe(f, {p \in DOMAIN f : p[1] = n})
Entra(f, n) == SumaDe(f, {p \in DOMAIN f : p[2] = n})

\* C1: when a solver returns and the call before it was the other solver,
\* with the same source and sink on the same network, the two totals are
\* equal.
C1_MismoTotal ==
  [][(/\ Retorna
      /\ EsRetorno(ultima)
      /\ ultima'.op # ultima.op
      /\ ultima'.u = ultima.u
      /\ ultima'.v = ultima.v)
     => ultima'.total = ultima.total]_vars

\* C1 witness: the BFS solver, run right after a DFS solve of the same source
\* and sink that returned at least 2, has reached the same total with other
\* edge flows.
C1_Witness ==
  /\ pc = "bucle"
  /\ alg = "bfs"
  /\ ultima.op = "ford_fulkerson_dfs"
  /\ ultima.err = "none"
  /\ ultima.u = fuente
  /\ ultima.v = sumidero
  /\ ultima.total >= 2
  /\ flujo_maximo = ultima.total
  /\ FlujoAristas(G) # ultima.flujo_aristas

\* C2: the total a solver returns is the capacity of a minimum cut between
\* its source and its sink, whatever the iteration orders were.
C2_FlujoMaximo ==
  (pc = "idle" /\ EsRetorno(ultima))
    => ultima.total = CorteMinimo(capacidad, nodos, ultima.u, ultima.v)

\* C2 witness: the DFS solver returned 3 on a network where the cross edge
\* 1 -> 2 carries no flow although it has capacity.
C2_Witness ==
  /\ pc = "idle"
  /\ ultima.op = "ford_fulkerson_dfs"
  /\ ultima.err = "none"
  /\ ultima.total = 3
  /\ <<1, 2>> \in DOMAIN capacidad
  /\ ultima.flujo_aristas[<<1, 2>>] = 0

\* C3: a solver that was entered returns.
C3_Termina == (pc # "idle") ~> (pc = "idle")

\* C4: with source equal to sink the search finds no path and the total
\* stays 0.
C4_FuenteEsSumidero ==
  (pc # "idle" /\ fuente = sumidero)
    => (pc # "aumento" /\ flujo_maximo = 0)

\* C5: the returned edge flow map has exactly the stored capacity entries as
\* keys, all capacities positive, and every value within [0, capacity].
C5_MapaDeFlujo ==
  (pc = "idle" /\ EsRetorno(ultima))
    => /\ DOMAIN ultima.flujo_aristas = {p \in DOMAIN capacidad : capacidad[p] > 0}
       /\ DOMAIN ultima.flujo_aristas = DOMAIN capacidad
       /\ \A p \in DOMAIN ultima.flujo_aristas :
            0 <= ultima.flujo_aristas[p] /\ ultima.flujo_aristas[p] <= capacidad[p]

\* C5 witness: a solver returned a positive flow while the flow table holds
\* an entry whose edge was removed.
C5_Witness ==
  /\ pc = "idle"
  /\ EsRetorno(ultima)
  /\ ultima.total >= 1
  /\ \E p \in DOMAIN flujo :
       p \notin DOMAIN capacidad /\ <<p[2], p[1]>> \notin DOMAIN capacidad

\* C6: in the returned edge flow map every node other than the source and
\* the sink has as much flow leaving as entering.
C6_Conservacion ==
  (pc = "idle" /\ EsRetorno(ultima))
    => \A n \in nodos \ {ultima.u, ultima.v} :
         Sale(ultima.flujo_aristas, n) = Entra(ultima.flujo_aristas, n)

\* C6 witness: a returned map with flow through the antiparallel pair
\* 1 -> 2 / 2 -> 1 next to the self-loop on 1.
C6_Witness ==
  /\ pc = "idle"
  /\ EsRetorno(ultima)
  /\ {<<1, 2>>, <<2, 1>>, <<1, 1>>} \subseteq DOMAIN ultima.flujo_aristas
  /\ ultima.flujo_aristas[<<2, 1>>] > 0
  /\ ultima.total >= 2

\* C7: a solver call with a source or sink outside the node set raises and
\* changes no field and starts no loop.
C7_FalloSinEfecto ==
  [][\A s, t \in Nodos :
       ((s \notin nodos \/ t \notin nodos) /\ (EntrarDFS(s, t) \/ EntrarBFS(s, t)))
         => (ultima'.err = "ValueError" /\ UNCHANGED <<red, Locales>>)]_vars

\* C7 witness: a solver call has just failed and the flows of an earlier
\* successful solve are still in the flow table.
C7_Witness ==
  /\ pc = "idle"
  /\ ultima.op \in Solvers
  /\ ultima.err = "ValueError"
  /\ \E p \in DOMAIN flujo : flujo[p] > 0

\* C8: establecer_capacidad and agregar_arista with a negative capacity
\* raise and change no field.
C8_CapacidadNegativa ==
  [][\A u, v \in Nodos : \A cap \in Caps :
       (cap < 0 /\ (LlamarEstablecerCapacidad(u, v, cap) \/ LlamarAgregarArista(u, v, cap)))
         => (ultima'.err = "AssertionError" /\ UNCHANGED red)]_vars

\* C8 witness: agregar_arista has just been refused on an edge that exists.
C8_Witness ==
  /\ ultima.op = "agregar_arista"
  /\ ultima.err = "AssertionError"
  /\ <<ultima.u, ultima.v>> \in DOMAIN capacidad

\* C9: every stored capacity is strictly positive, so aristas() lists every
\* stored entry and none with capacity <= 0.
C9_CapacidadPositiva ==
  /\ \A p \in DOMAIN capacidad : capacidad[p] > 0
  /\ \A a \in aristas : a[3] > 0
  /\ Cardinality(aristas) = Cardinality(DOMAIN capacidad)

\* C9 witness: establecer_capacidad has just been called with capacity 0 on
\* an edge that existed (its flow entry is there, its capacity entry is not).
C9_Witness ==
  /\ ultima.op = "establecer_capacidad"
  /\ ultima.err = "none"
  /\ <<ultima.u, ultima.v>> \in DOMAIN flujo
  /\ <<ultima.u, ultima.v>> \notin DOMAIN capacidad
  /\ capacidad # Vacio

\* C10: after eliminar_nodo(u) nothing refers to u, and what does not
\* involve u is as before (an adjacency set is compared by its members).
C10_EliminarNodo ==
  [][\A u \in Nodos : LlamarEliminarNodo(u) =>
       /\ nodos' = nodos \ {u}
       /\ \A p \in (DOMAIN capacidad') \cup (DOMAIN flujo') : ~Incide(p, u)
       /\ u \notin DOMAIN ady'
       /\ \A w \in DOMAIN ady' : u \notin ady'[w]
       /\ \A a \in aristas' : a[1] # u /\ a[2] # u
       /\ DOMAIN capacidad' = {p \in DOMAIN capacidad : ~Incide(p, u)}
       /\ \A p \in DOMAIN capacidad' : capacidad'[p] = capacidad[p]
       /\ DOMAIN flujo' = {p \in DOMAIN flujo : ~Incide(p, u)}
       /\ \A p \in DOMAIN flujo' : flujo'[p] = flujo[p]
       /\ \A w \in Nodos \ {u} : Get(ady', w, {}) = Get(ady, w, {}) \ {u}]_vars

\* C10 witness: eliminar_nodo has just run and edges, flows and adjacency of
\* the other nodes are still there.
C10_Witness ==
  /\ ultima.op = "eliminar_nodo"
  /\ ultima.u \notin nodos
  /\ capacidad # Vacio
  /\ \E p \in DOMAIN flujo : flujo[p] > 0
  /\ \E w \in DOMAIN ady : ady[w] # {}

\* ---- a whole solve as a function -----------------------------------------
\* The totals that the while loop of solver a can end with when it is run on
\* the fields g with the running total at total, over all iteration orders.
\* With s = t the loop never ends and there is no total.
RECURSIVE Totales(_, _, _, _, _)
Totales(a, g, s, t, total) ==
  IF s = t THEN {}
  ELSE LET R == IF a = "dfs" THEN BuscarDFS(g, s, t) ELSE bfs_aumento(g, s, t)
           Sigue(r) ==
             IF r.found
             THEN LET b == Botella(g, r.padre, s, t, Inf)
                  IN Totales(a, [g EXCEPT !.flujo = Aplicar(@, r.padre, s, t, b),
                                          !.ady = Tocar(@, r.visitado)],
                             s, t, Suma(total, b))
             ELSE {total}
       IN UNION {Sigue(r) : r \in R}

\* the fields with every stored flow at 0
SinFlujo(g) == [g EXCEPT !.flujo = [p \in DOMAIN @ |-> 0]]

\* C11: the total a solver returns is the total of a solve of the same
\* capacity table with all flows at 0, whatever flows the call found; and a
\* solver that returns right after a return of the same solver for the same
\* source and sink returns the same total.
C11_SinMemoria ==
  [][Retorna =>
       /\ Totales(alg, SinFlujo(G), fuente, sumidero, 0) = {ultima'.total}
       /\ (EsRetorno(ultima) /\ ultima.op = ultima'.op
           /\ ultima.u = ultima'.u /\ ultima.v = ultima'.v)
          => ultima'.total = ultima.total]_vars

\* C11 witness: a solver runs for the second time in a row with the same
\* source and sink, started on the non-zero flows of the first run, and has
\* reached the total of the first run.
C11_Witness ==
  /\ pc = "bucle"
  /\ EsRetorno(ultima)
  /\ ultima.op = (IF alg = "dfs" THEN "ford_fulkerson_dfs" ELSE "edmonds_karp_bfs")
  /\ ultima.u = fuente
  /\ ultima.v = sumidero
  /\ ultima.total >= 1
  /\ flujo_maximo = ultima.total

\* ---- scenario A -----------------------------------------------------------
\* nodes {0, 1, 2, 3} and the edges (0->1, 10), (0->2, 10), (1->3, 8),
\* (2->3, 8), (1->2, 1), built by agregar_nodo and agregar_arista
AristasA == << <<0, 1, 10>>, <<0, 2, 10>>, <<1, 3, 8>>, <<2, 3, 8>>, <<1, 2, 1>> >>

RECURSIVE ConAristasA(_, _)
ConAristasA(g, i) ==
  IF i > Len(AristasA) THEN g
  ELSE ConAristasA(agregar_arista(g, AristasA[i][1], AristasA[i][2], AristasA[i][3]),
                   i + 1)

RedA == ConAristasA(ConNodos(GVacio, NodosRed), 1)

InitA ==
  /\ nodos = RedA.nodos
  /\ capacidad = RedA.capacidad
  /\ flujo = RedA.flujo
  /\ ady = RedA.ady
  /\ pc = "idle"
  /\ alg = "none"
  /\ fuente = 0
  /\ sumidero = 0
  /\ flujo_maximo = 0
  /\ padre = Vacio
  /\ ultima = Ninguna
  /\ llamadas = MaxLlamadas - 2

SpecA == InitA /\ [][NextRed]_vars

\* C12: on the network of scenario A every solver call from 0 to 3 returns a
\* total of 16.
C12_EscenarioA ==
  (pc = "idle" /\ EsRetorno(ultima) /\ ultima.u = 0 /\ ultima.v = 3)
    => ultima.total = 16

\* C12 witness: ford_fulkerson_dfs(0, 3), as the second solver call on the
\* network, returned 16 with the cross edge 1 -> 2 carrying its unit of flow.
C12_Witness ==
  /\ pc = "idle"
  /\ ultima.op = "ford_fulkerson_dfs"
  /\ ultima.err = "none"
  /\ ultima.u = 0
  /\ ultima.v = 3
  /\ ultima.total = 16
  /\ ultima.flujo_aristas[<<1, 2>>] = 1
  /\ llamadas = MaxLlamadas

\* the step is a completed call of op (the arguments are in ultima')
Llamada(op) == llamadas' = llamadas + 1 /\ ultima'.op = op

\* the capacity entries other than <<u, v>> are the same before and after
OtrasIguales(u, v) ==
  /\ (DOMAIN capacidad') \ {<<u, v>>} = (DOMAIN capacidad) \ {<<u, v>>}
  /\ \A p \in (DOMAIN capacidad) \ {<<u, v>>} : capacidad'[p] = capacidad[p]

\* C13: agregar_arista(u, v, d) with d >= 0 leaves capacity(u, v) at its
\* previous value (0 if none) plus d; establecer_capacidad(u, v, c) with
\* c > 0 leaves it at c; neither changes another capacity entry.
C13_AcumulaYSobrescribe ==
  [][\A cap \in Caps :
       LET u == ultima'.u
           v == ultima'.v
       IN /\ (Llamada("agregar_arista") /\ cap >= 0
                 /\ LlamarAgregarArista(u, v, cap))
               => /\ Get(capacidad', <<u, v>>, 0)
                       = Get(capacidad, <<u, v>>, 0) + cap
                  /\ OtrasIguales(u, v)
          /\ (Llamada("establecer_capacidad") /\ cap > 0
                 /\ LlamarEstablecerCapacidad(u, v, cap))
               => /\ <<u, v>> \in DOMAIN capacidad'
                  /\ capacidad'[<<u, v>>] = cap
                  /\ OtrasIguales(u, v)]_vars

\* C13 witness: agregar_arista has just left an edge with more capacity than
\* one call can give, next to another edge.
C13_Witness ==
  /\ ultima.op = "agregar_arista"
  /\ ultima.err = "none"
  /\ <<ultima.u, ultima.v>> \in DOMAIN capacidad
  /\ capacidad[<<ultima.u, ultima.v>>] > MaxCap
  /\ Cardinality(DOMAIN capacidad) >= 2

\* C14: eliminar_arista(u, v) and establecer_capacidad(u, v, 0) remove the
\* capacity entry of u -> v if there is one and change nothing else.
C14_SoloLaArista ==
  [][LET u == ultima'.u
         v == ultima'.v
     IN (\/ Llamada("eliminar_arista") /\ LlamarEliminarArista(u, v)
         \/ Llamada("establecer_capacidad")
              /\ LlamarEstablecerCapacidad(u, v, 0))
          => /\ UNCHANGED <<nodos, flujo, ady>>
             /\ <<u, v>> \notin DOMAIN capacidad'
             /\ OtrasIguales(u, v)
             /\ (<<u, v>> \notin DOMAIN capacidad => UNCHANGED capacidad)]_vars

\* C14 witness: eliminar_arista has just removed u -> v; the reverse edge,
\* the flow entry with its flow and the adjacency link are still there.
C14_Witness ==
  /\ ultima.op = "eliminar_arista"
  /\ ultima.u # ultima.v
  /\ <<ultima.u, ultima.v>> \notin DOMAIN capacidad
  /\ <<ultima.v, ultima.u>> \in DOMAIN capacidad
  /\ <<ultima.u, ultima.v>> \in DOMAIN flujo
  /\ flujo[<<ultima.u, ultima.v>>] > 0
  /\ ultima.v \in Get(ady, ultima.u, {})

\* the nodes on the walk of the predecessor map from v back to s
RECURSIVE EnCamino(_, _, _)
EnCamino(pa, s, v) ==
  IF v = s THEN {s} ELSE {v} \cup EnCamino(pa, s, pa[v][1])

\* every entry of the flow table f is within 0 .. capacity
Acotado(f) ==
  \A p \in DOMAIN f : 0 <= f[p] /\ f[p] <= Get(capacidad, p, 0)

\* the flow tables the update walk of lines 212-219 / 280-287 goes through:
\* the one it starts from and the one after each step back from the sink
TablasDelAumento ==
  LET botella == Botella(G, padre, fuente, sumidero, Inf)
  IN {Aplicar(flujo, padre, w, sumidero, botella) :
        w \in EnCamino(padre, fuente, sumidero)}

\* C15: from the reset to the return of a solver call every flow entry is
\* within 0 .. capacity (0 with no capacity entry), between augmentations and
\* after each step of the update walk, and clamping changes no value.
C15_FlujoAcotado ==
  (pc # "idle")
    => /\ Acotado(flujo)
       /\ \A p \in DOMAIN capacidad : FlujoAristas(G)[p] = Get(flujo, p, 0)
       /\ (pc = "aumento") => \A f \in TablasDelAumento : Acotado(f)

\* C15 witness: an augmentation about to push at least one unit over a walk
\* with a backward step, which takes flow off an edge that carries some.
C15_Witness ==
  /\ pc = "aumento"
  /\ Botella(G, padre, fuente, sumidero, Inf) >= 1
  /\ \E v \in EnCamino(padre, fuente, sumidero) \ {fuente} :
       /\ padre[v][2] # 1
       /\ flujo[<<v, padre[v][1]>>] >= 1
  /\ Cardinality(TablasDelAumento) >= 4

\* every step of the walk from v back to s has residual >= 1 in the
\* direction of its tag
RECURSIVE PasosPositivos(_, _, _, _)
PasosPositivos(g, pa, s, v) ==
  IF v = s THEN TRUE
  ELSE LET u == pa[v][1]
           r == IF pa[v][2] = 1 THEN residual_adelante(g, u, v)
                ELSE residual_atras(g, u, v)
       IN r >= 1 /\ PasosPositivos(g, pa, s, u)

\* C16: whenever a search has reported a path, the bottleneck of the walk of
\* its predecessor map is a finite integer >= 1 and every step of the walk
\* has positive residual in the direction of its tag.
C16_BotellaFinita ==
  (pc = "aumento")
    => /\ Botella(G, padre, fuente, sumidero, Inf) \in 1 .. (Inf - 1)
       /\ PasosPositivos(G, padre, fuente, sumidero)

\* the number of steps of the walk of the predecessor map from v back to s
RECURSIVE LargoCamino(_, _, _)
LargoCamino(pa, s, v) ==
  IF v = s THEN 0 ELSE 1 + LargoCamino(pa, s, pa[v][1])

\* u -> v is an edge of the residual graph of g: capacity left on u -> v, or
\* flow on v -> u to cancel (the adjacency index plays no part)
EnResidual(g, u, v) ==
  residual_adelante(g, u, v) > 0 \/ residual_atras(g, u, v) > 0

\* the least number of edges of a path of the residual graph of g from the
\* set S, reached in k edges, to t (Inf if there is none)
RECURSIVE Distancia(_, _, _, _)
Distancia(g, S, t, k) ==
  IF t \in S THEN k
  ELSE LET ext == {p[1] : p \in DOMAIN g.capacidad \cup DOMAIN g.flujo}
                    \cup {p[2] : p \in DOMAIN g.capacidad \cup DOMAIN g.flujo}
           S2 == S \cup {v \in ext : \E u \in S : EnResidual(g, u, v)}
       IN IF S2 = S THEN Inf ELSE Distancia(g, S2, t, k + 1)

\* C17: the path the breadth-first search returns has the least number of
\* edges among the source-to-sink paths of the residual graph.
C17_CaminoMasCorto ==
  (pc = "aumento" /\ alg = "bfs")
    => LargoCamino(padre, fuente, sumidero)
         = Distancia(G, {fuente}, sumidero, 0)

\* C17 witness: the search returned a path of two edges, found when the sink
\* was discovered, while a path of three edges through both middle nodes
\* exists in the residual graph.
C17_Witness ==
  /\ pc = "aumento"
  /\ alg = "bfs"
  /\ fuente = 0
  /\ sumidero = 3
  /\ LargoCamino(padre, fuente, sumidero) = 2
  /\ padre[3][1] = 2
  /\ EnResidual(G, 0, 1)
  /\ EnResidual(G, 1, 2)
  /\ flujo_maximo >= 1

\* C18: in one depth-first search _dfs_aumento is entered at most once for
\* each node and the recursion depth is at most the number of nodes of the
\* node set, whatever the network and the order of the neighbours.
C18_UnaEntradaPorNodo ==
  (pc = "bucle" /\ alg = "dfs")
    => \A r \in BuscarDFS(G, fuente, sumidero) :
         /\ \A n \in DOMAIN r.entradas : r.entradas[n] <= 1
         /\ DOMAIN r.entradas \subseteq nodos
         /\ r.hondo <= Cardinality(nodos)

\* C18 witness: a later search of the loop whose recursion gets as deep as
\* there are nodes, over a backward step, on a network with a cycle.
C18_Witness ==
  /\ pc = "bucle"
  /\ alg = "dfs"
  /\ flujo_maximo >= 1
  /\ {<<1, 2>>, <<2, 1>>} \subseteq DOMAIN capacidad
  /\ \E r \in BuscarDFS(G, fuente, sumidero) :
       /\ r.found
       /\ r.hondo = Cardinality(nodos)
       /\ \E n \in DOMAIN r.padre : r.padre[n][2] # 1

\* C19: in every reachable state v is in the adjacency set of u if and only
\* if u is in the adjacency set of v.
C19_AdyacenciaSimetrica ==
  \A u \in DOMAIN ady : \A v \in ady[u] :
    v \in DOMAIN ady /\ u \in ady[v]

\* C19 witness: eliminar_nodo has just pruned the index, which still holds a
\* link of an edge whose capacity entry was removed, next to flow that a
\* solver left.
C19_Witness ==
  /\ ultima.op = "eliminar_nodo"
  /\ ultima.u \notin DOMAIN ady
  /\ \E u \in DOMAIN ady : \E v \in ady[u] :
       /\ u # v
       /\ <<u, v>> \notin DOMAIN capacidad
       /\ <<v, u>> \notin DOMAIN capacidad
  /\ \E u \in DOMAIN flujo : flujo[u] > 0

\* the network built on a new object from the node set of g and its stored
\* capacity entries: agregar_nodo for each node, then establecer_capacidad
\* for each entry
RECURSIVE ConEntradas(_, _, _)
ConEntradas(g, c, P) ==
  IF P = {} THEN g
  ELSE LET p == CHOOSE x \in P : TRUE
       IN ConEntradas(establecer_capacidad(g, p[1], p[2], c[p]), c, P \ {p})

Fresca(g) ==
  ConEntradas(ConNodos(GVacio, g.nodos), g.capacidad, DOMAIN g.capacidad)

\* u - v is a link of the adjacency index with no capacity entry either way
EnlaceSobrante(u, v) ==
  /\ u \in DOMAIN ady
  /\ v \in ady[u]
  /\ <<u, v>> \notin DOMAIN capacidad
  /\ <<v, u>> \notin DOMAIN capacidad

\* C20: a solver call returns the total, and a map with the keys, that the
\* same solver gives on a newly built network with the same node set and only
\* the capacity entries now stored, whatever links and flow entries earlier
\* edges left behind.
C20_EnlacesInocuos ==
  [][Retorna =>
       /\ Totales(alg, Fresca(G), fuente, sumidero, 0) = {ultima'.total}
       /\ DOMAIN ultima'.flujo_aristas = DOMAIN FlujoAristas(Fresca(G))]_vars

\* C20 witness: a solver has returned a positive total from a source that
\* still has the link, and the flow of an earlier call, of a removed edge.
C20_Witness ==
  /\ pc = "idle"
  /\ EsRetorno(ultima)
  /\ ultima.total >= 1
  /\ \E v \in Nodos \ {ultima.u} :
       /\ EnlaceSobrante(ultima.u, v)
       /\ <<ultima.u, v>> \in DOMAIN flujo
  /\ DOMAIN flujo # DOMAIN Fresca(G).flujo

\* C21: the total of a returned solver call with source different from sink
\* is the flow out of the source minus the flow into it in the returned map,
\* and the flow into the sink minus the flow out of it.
C21_TotalEsFlujoNeto ==
  (pc = "idle" /\ EsRetorno(ultima) /\ ultima.u # ultima.v)
    => LET fa == ultima.flujo_aristas
       IN /\ ultima.total = Sale(fa, ultima.u) - Entra(fa, ultima.u)
          /\ ultima.total = Entra(fa, ultima.v) - Sale(fa, ultima.v)

\* C21 witness: a returned total of at least 3 that reaches the sink over
\* both of its edges, one of them carrying two units.
C21_Witness ==
  /\ pc = "idle"
  /\ EsRetorno(ultima)
  /\ ultima.u = 0
  /\ ultima.v = 3
  /\ ultima.total >= 3
  /\ {<<1, 3>>, <<2, 3>>} \subseteq DOMAIN ultima.flujo_aristas
  /\ ultima.flujo_aristas[<<1, 3>>] >= 1
  /\ ultima.flujo_aristas[<<2, 3>>] = 2

\* C22: in every reachable state each stored capacity entry (u, v) has v in
\* the adjacency set of u and u in that of v, both flow entries, and both
\* ends in the node set; and every edge of the residual graph is a link of
\* the adjacency index, so a search over adjacency sets sees it.
C22_IndiceCubreResidual ==
  /\ \A p \in DOMAIN capacidad :
       /\ p[2] \in Get(ady, p[1], {})
       /\ p[1] \in Get(ady, p[2], {})
       /\ {p, <<p[2], p[1]>>} \subseteq DOMAIN flujo
       /\ {p[1], p[2]} \subseteq nodos
  /\ \A u, v \in Nodos \cup NodosRed :
       EnResidual(G, u, v) => v \in Get(ady, u, {})

\* C22 witness: after eliminar_nodo removed a node, an edge between two other
\* nodes is still stored and carries flow, so that the residual graph has
\* the edge back over it.
C22_Witness ==
  /\ ultima.op = "eliminar_nodo"
  /\ ultima.u \notin nodos
  /\ Cardinality(nodos) >= 2
  /\ \E p \in DOMAIN capacidad :
       /\ p[1] # p[2]
       /\ flujo[p] >= 1
       /\ EnResidual(G, p[2], p[1])
       /\ p[1] \in ady[p[2]]

====
